---- MODULE Spec2Model ----
(***************************************************************************)
(* Quiz-attempt grading (ApiService.submitQuizAttempt) and aggregate       *)
(* analytics (ApiService.getQuizAnalytics) of the training portal, over    *)
(* the relational tables questions, question_options, quiz_attempts and    *)
(* attempt_answers.                                                        *)
(*                                                                         *)
(* Spec          : the datastore, createQuiz and one client running        *)
(*                 submitQuizAttempt, one action per await boundary.       *)
(* SpecAnalytics : getQuizAnalytics over bounded attempt histories.        *)
(* SpecEdit      : submitQuizAttempt racing with updateQuiz and deleteQuiz *)
(*                 of an administrator.                                    *)
(* SpecAuthor    : updateQuiz and deleteQuiz over two stored quizzes.      *)
(* SpecTaker     : one QuizTaker component: option selection, navigation,  *)
(*                 the countdown timer and the submit requests it issues.  *)
(* SpecTakerFair : SpecTaker with a timer that keeps firing.               *)
(* SpecSession   : QuizTaker while an administrator runs updateQuiz.       *)
(* SpecPolicy    : the row-level policies of quiz_attempts and profiles.   *)
(* SpecAuth      : login, signup and logout through the AuthProvider.      *)
(***************************************************************************)
EXTENDS Integers, Sequences, FiniteSets, TLC

\* ---------------------------------------------------------------- bounds
MaxQuizzes == 1
MaxQuestions == 2
MaxOptions == 2
MaxAnswers == 2
MaxAttempts == 3

\* ------------------------------------------------------------- variables
VARIABLES
    quizzes,            \* table quizzes: set of quiz ids
    questions,          \* table questions: set of rows
    question_options,   \* table question_options: set of rows
    quiz_attempts,      \* table quiz_attempts: sequence of rows, insertion order
    attempt_answers,    \* table attempt_answers: set of rows
    pc,                 \* position of the client inside submitQuizAttempt
    user,               \* submitQuizAttempt: result of supabase.auth.getUser()
    quizId,             \* submitQuizAttempt: parameter quizId
    answers,            \* submitQuizAttempt: parameter answers
    quiz,               \* submitQuizAttempt: const quiz = await getQuizById(quizId)
    totalScore,         \* submitQuizAttempt: let totalScore
    totalPoints,        \* submitQuizAttempt: let totalPoints
    answerResults,      \* submitQuizAttempt: const answerResults
    attempt,            \* submitQuizAttempt: id of the inserted quiz_attempts row
    history,            \* getQuizAnalytics: rows returned by the quiz_attempts select
    report,             \* getQuizAnalytics: returned object, or NoReport
    generated,          \* per table, the number of ids its DEFAULT has generated
    editor,             \* position and arguments of the administrator's updateQuiz call
    taker,              \* QuizTaker: its quiz prop and its useState values
    calls,              \* QuizTaker: the submitQuizAttempt calls handleSubmit has made
    lastSelected,       \* per question id, the option the trainee clicked last (0: none)
    auth_users,         \* table auth.users: set of user ids
    profiles,           \* table profiles: set of rows
    session,            \* supabase client: user id of the stored session, or NoUser
    appUser,            \* AuthProvider: its useState value user, or NoUser
    callbacks,          \* AuthProvider: the onAuthStateChange callbacks started so far
    authCall,           \* position and arguments of the login or signup call
    visible             \* result of the last select on quiz_attempts

dbVars == <<quizzes, questions, question_options, quiz_attempts, attempt_answers,
            generated>>
submitVars == <<pc, user, quizId, answers, quiz, totalScore, totalPoints,
                answerResults, attempt>>
analyticsVars == <<history, report>>
clientVars == <<editor, taker, calls, lastSelected>>
authVars == <<auth_users, profiles, session, appUser, callbacks, authCall, visible>>
vars == <<dbVars, submitVars, analyticsVars, clientVars, authVars>>

\* --------------------------------------------------------------- domains
Users == {"u1"}
NoUser == "null"
\* value of an optional chain that found nothing (`?.id` of undefined);
\* row ids start at 1
Undefined == 0
NoQuiz == [id |-> Undefined, questions |-> <<>>]
NoReport == [totalAttempts |-> -1, quizAnalytics |-> <<>>, topTrainees |-> <<>>]
\* no updateQuiz call is running
NoEditor == [pc |-> "idle", id |-> Undefined, hasQuestions |-> FALSE,
             questions |-> <<>>, i |-> 0,
             before |-> [questions |-> {}, question_options |-> {}]]
\* timeRemaining of a quiz without a time limit (null)
NoTimeLimit == -1
\* result before a submit request has resolved (null)
NoResult == [id |-> Undefined, score |-> 0, totalPoints |-> 0, answers |-> <<>>]
\* no QuizTaker is mounted
NoTaker == [quiz |-> NoQuiz, currentQuestionIndex |-> 0, answers |-> <<>>,
            timeRemaining |-> NoTimeLimit, submitted |-> FALSE, result |-> NoResult]
\* the AuthProvider holds no user (null)
NoAppUser == [id |-> NoUser, role |-> "none"]
\* no login or signup call is running
NoAuthCall == [kind |-> "none", pc |-> "idle", id |-> NoUser, role |-> "none",
               created |-> NoUser, clean |-> FALSE]
\* no select on quiz_attempts has been made
NoRows == [uid |-> NoUser, admin |-> FALSE, userId |-> NoUser, rows |-> <<>>,
           total |-> 0]
\* the accounts exist as trainees, nobody is signed in and the login page
\* has not been used
AuthIdle ==
    /\ auth_users = Users
    /\ profiles = {[id |-> u, role |-> "trainee"] : u \in Users}
    /\ session = NoUser
    /\ appUser = NoAppUser
    /\ callbacks = <<>>
    /\ authCall = NoAuthCall
    /\ visible = NoRows

QuizIds == 1..MaxQuizzes
MaxQuestionRows == MaxQuizzes * MaxQuestions
MaxOptionRows == MaxQuestionRows * MaxOptions
\* ids a client may put in an answer: every id the tables can hold and one
\* more that no row ever has
AnswerQuestionIds == 1..(MaxQuestionRows + 1)
AnswerOptionIds == 1..(MaxOptionRows + 1)
\* ids the quiz editor gives to options before they are stored
\* (Date.now()-based numbers, which can coincide)
ClientOptionIds == 1..MaxOptions

Min(S) == CHOOSE x \in S : \A y \in S : x <= y
Max(S) == CHOOSE x \in S : \A y \in S : x >= y

SeqsUpTo(S, n) == UNION {[1..k -> S] : k \in 0..n}

\* ------------------------------------------------------------ datastore
\* rows of S as a sequence ordered by order_index ascending
\* (.order('order_index', { ascending: true }) / .sort(a.order_index - b.order_index))
RECURSIVE OrderByIndex(_)
OrderByIndex(S) ==
    IF S = {} THEN <<>>
    ELSE LET first == CHOOSE r \in S : \A o \in S : r.order_index <= o.order_index
         IN <<first>> \o OrderByIndex(S \ {first})

\* index of the first element of seq whose field equals value, 0 when there
\* is none (Array.prototype.find)
FindIndex(seq, field, value) ==
    LET hits == {i \in DOMAIN seq : seq[i][field] = value}
    IN IF hits = {} THEN 0 ELSE Min(hits)

\* formattedQuestions entry of getQuizById for the questions row q
FormatQuestion(q, optionRows) ==
    LET sorted == OrderByIndex({o \in optionRows : o.question_id = q.id})
        options == [j \in DOMAIN sorted |->
                       [id |-> sorted[j].id, questionId |-> q.id,
                        isCorrect |-> sorted[j].is_correct]]
        c == FindIndex(sorted, "is_correct", TRUE)
    IN [id |-> q.id,
        options |-> options,
        correctOptionId |-> IF c = 0 THEN Undefined ELSE sorted[c].id]

\* the Quiz object getQuizById(id) builds from the rows it selected
FormatQuiz(id, questionRows, optionRows) ==
    LET sorted == OrderByIndex({q \in questionRows : q.quiz_id = id})
    IN [id |-> id,
        questions |-> [i \in DOMAIN sorted |-> FormatQuestion(sorted[i], optionRows)]]

\* ------------------------------------------------------------ createQuiz
\* the questions a quiz editor can hand to createQuiz: per question the
\* editor's option ids in display order and the id marked as correct
\* (0, the editor's initial value, marks none)
QuestionInputs ==
    [options : SeqsUpTo(ClientOptionIds, MaxOptions),
     correctOptionId : {0} \cup ClientOptionIds]

\* the id a table's DEFAULT gives to the next inserted row: one that no row
\* of the table has or ever had
NoneGenerated == [quizzes |-> 0, questions |-> 0, question_options |-> 0,
                  quiz_attempts |-> 0]
NextId(gen, table) == gen[table] + 1

\* OptionsToInsert that numbers the rows of every question from 1
OptionsToInsertReusesIds(question, questionId, gen) ==
    {[id |-> idx,
      question_id |-> questionId,
      is_correct |-> (question.options[idx] = question.correctOptionId),
      order_index |-> idx - 1] : idx \in DOMAIN question.options}

\* the question_options rows createQuiz inserts for one question
\* (optionsToInsert, with the ids the table generates)
OptionsToInsert(question, questionId, gen) ==
    LET base == NextId(gen, "question_options") - 1
    IN {[id |-> base + idx,
         question_id |-> questionId,
         is_correct |-> (question.options[idx] = question.correctOptionId),
         order_index |-> idx - 1] : idx \in DOMAIN question.options}

\* the for loop of createQuiz from index i on: one questions row and its
\* question_options rows per input question
RECURSIVE InsertQuestions(_, _, _, _)
InsertQuestions(input, i, id, tables) ==
    IF i > Len(input) THEN tables
    ELSE LET newQuestion == [id |-> NextId(tables.generated, "questions"),
                             quiz_id |-> id, order_index |-> i - 1, points |-> 1]
             opts == OptionsToInsert(input[i], newQuestion.id, tables.generated)
         IN InsertQuestions(input, i + 1, id,
                [questions |-> tables.questions \cup {newQuestion},
                 question_options |-> tables.question_options \cup opts,
                 generated |-> [tables.generated EXCEPT
                                   !.questions = @ + 1,
                                   !.question_options = @ + Len(input[i].options)]])

CreateQuiz(input) ==
    /\ generated.quizzes < MaxQuizzes
    /\ LET newQuiz == NextId(generated, "quizzes")
           tables == InsertQuestions(input, 1, newQuiz,
                        [questions |-> questions, question_options |-> question_options,
                         generated |-> [generated EXCEPT !.quizzes = newQuiz]])
       IN /\ quizzes' = quizzes \cup {newQuiz}
          /\ questions' = tables.questions
          /\ question_options' = tables.question_options
          /\ generated' = tables.generated
    /\ UNCHANGED <<quiz_attempts, attempt_answers, submitVars, analyticsVars, authVars, clientVars>>

\* ----------------------------------------------------- submitQuizAttempt
Answers == [questionId : AnswerQuestionIds, selectedOptionId : AnswerOptionIds]

\* NoGrade with totalPoints starting at 1
NoGradeCountsOne == [totalScore |-> 0, totalPoints |-> 1, answerResults |-> <<>>]

\* the values of totalScore, totalPoints and answerResults before the loop
NoGrade == [totalScore |-> 0, totalPoints |-> 0, answerResults |-> <<>>]

\* GradeAnswer with `totalPoints += 1` moved into the branch of a wrong answer
GradeAnswerCountsWrongOnly(q, answer, acc) ==
    LET qi == FindIndex(q.questions, "id", answer.questionId)
    IN IF qi = 0 THEN acc
       ELSE LET question == q.questions[qi]
                oi == FindIndex(question.options, "id", answer.selectedOptionId)
                isCorrect == IF oi = 0 THEN FALSE ELSE question.options[oi].isCorrect
            IN [totalScore |-> acc.totalScore + (IF isCorrect THEN 1 ELSE 0),
                totalPoints |-> acc.totalPoints + (IF isCorrect THEN 0 ELSE 1),
                answerResults |-> Append(acc.answerResults,
                    [questionId |-> answer.questionId,
                     selectedOptionId |-> answer.selectedOptionId,
                     isCorrect |-> isCorrect])]

\* GradeAnswer with `totalPoints += 1` moved in front of `if (question)`
GradeAnswerCountsEveryAnswer(q, answer, acc) ==
    LET qi == FindIndex(q.questions, "id", answer.questionId)
        counted == [acc EXCEPT !.totalPoints = @ + 1]
    IN IF qi = 0 THEN counted
       ELSE LET question == q.questions[qi]
                oi == FindIndex(question.options, "id", answer.selectedOptionId)
                isCorrect == IF oi = 0 THEN FALSE ELSE question.options[oi].isCorrect
            IN [totalScore |-> acc.totalScore + (IF isCorrect THEN 1 ELSE 0),
                totalPoints |-> counted.totalPoints,
                answerResults |-> Append(acc.answerResults,
                    [questionId |-> answer.questionId,
                     selectedOptionId |-> answer.selectedOptionId,
                     isCorrect |-> isCorrect])]

\* GradeAnswer without the `if (question)` test: an answer to an unknown
\* question is recorded as a wrong answer
GradeAnswerKeepsUnmatched(q, answer, acc) ==
    LET qi == FindIndex(q.questions, "id", answer.questionId)
        question == IF qi = 0 THEN [options |-> <<>>] ELSE q.questions[qi]
        oi == FindIndex(question.options, "id", answer.selectedOptionId)
        isCorrect == IF oi = 0 THEN FALSE ELSE question.options[oi].isCorrect
    IN [totalScore |-> acc.totalScore + (IF isCorrect THEN 1 ELSE 0),
        totalPoints |-> acc.totalPoints + 1,
        answerResults |-> Append(acc.answerResults,
            [questionId |-> answer.questionId,
             selectedOptionId |-> answer.selectedOptionId,
             isCorrect |-> isCorrect])]

\* GradeAnswer that grades only the first answer to a question
GradeAnswerSkipsRepeated(q, answer, acc) ==
    LET qi == FindIndex(q.questions, "id", answer.questionId)
    IN IF qi = 0 \/ FindIndex(acc.answerResults, "questionId", answer.questionId) # 0
       THEN acc
       ELSE LET question == q.questions[qi]
                oi == FindIndex(question.options, "id", answer.selectedOptionId)
                isCorrect == IF oi = 0 THEN FALSE ELSE question.options[oi].isCorrect
            IN [totalScore |-> acc.totalScore + (IF isCorrect THEN 1 ELSE 0),
                totalPoints |-> acc.totalPoints + 1,
                answerResults |-> Append(acc.answerResults,
                    [questionId |-> answer.questionId,
                     selectedOptionId |-> answer.selectedOptionId,
                     isCorrect |-> isCorrect])]

\* GradeAnswer that puts the graded answer in front of the earlier ones
GradeAnswerPrepends(q, answer, acc) ==
    LET qi == FindIndex(q.questions, "id", answer.questionId)
    IN IF qi = 0 THEN acc
       ELSE LET question == q.questions[qi]
                oi == FindIndex(question.options, "id", answer.selectedOptionId)
                isCorrect == IF oi = 0 THEN FALSE ELSE question.options[oi].isCorrect
            IN [totalScore |-> acc.totalScore + (IF isCorrect THEN 1 ELSE 0),
                totalPoints |-> acc.totalPoints + 1,
                answerResults |-> <<[questionId |-> answer.questionId,
                                     selectedOptionId |-> answer.selectedOptionId,
                                     isCorrect |-> isCorrect]>> \o acc.answerResults]

\* one iteration of `for (const answer of answers)`; acc holds totalScore,
\* totalPoints and answerResults as the previous iterations left them
GradeAnswer(q, answer, acc) ==
    LET qi == FindIndex(q.questions, "id", answer.questionId)
    IN IF qi = 0 THEN acc
       ELSE LET question == q.questions[qi]
                oi == FindIndex(question.options, "id", answer.selectedOptionId)
                isCorrect == IF oi = 0 THEN FALSE ELSE question.options[oi].isCorrect
            IN [totalScore |-> acc.totalScore + (IF isCorrect THEN 1 ELSE 0),
                totalPoints |-> acc.totalPoints + 1,
                answerResults |-> Append(acc.answerResults,
                    [questionId |-> answer.questionId,
                     selectedOptionId |-> answer.selectedOptionId,
                     isCorrect |-> isCorrect])]

\* the grading loop over answers[1..n]
RECURSIVE GradeLoop(_, _, _)
GradeLoop(q, as, n) ==
    IF n = 0 THEN NoGrade
    ELSE GradeAnswer(q, as[n], GradeLoop(q, as, n - 1))

\* submitQuizAttempt is called; supabase.auth.getUser() resolves
SubmitGetUser(u, id, as) ==
    /\ pc = "idle"
    /\ user' = u
    /\ quizId' = id
    /\ answers' = as
    /\ pc' = IF u = NoUser THEN "error" ELSE "getQuiz"
    /\ UNCHANGED <<dbVars, quiz, totalScore, totalPoints, answerResults, attempt,
                   analyticsVars, authVars, clientVars>>

\* getQuizById: the select on quizzes resolves
SubmitSelectQuiz ==
    /\ pc = "getQuiz"
    /\ pc' = IF quizId \in quizzes THEN "getQuestions" ELSE "error"
    /\ UNCHANGED <<dbVars, user, quizId, answers, quiz, totalScore, totalPoints,
                   answerResults, attempt, analyticsVars, authVars, clientVars>>

\* getQuizById: the select on questions resolves (or fails); the quiz is
\* formatted and graded, and the insert into quiz_attempts is issued
SubmitGrade(questionsError) ==
    /\ pc = "getQuestions"
    /\ IF questionsError
       THEN /\ pc' = "error"
            /\ UNCHANGED <<quiz, totalScore, totalPoints, answerResults>>
       ELSE LET q == FormatQuiz(quizId, questions, question_options)
                g == GradeLoop(q, answers, Len(answers))
            IN /\ quiz' = q
               /\ totalScore' = g.totalScore
               /\ totalPoints' = g.totalPoints
               /\ answerResults' = g.answerResults
               /\ pc' = "insertAttempt"
    /\ UNCHANGED <<dbVars, user, quizId, answers, attempt, analyticsVars, authVars, clientVars>>

\* the insert into quiz_attempts resolves
SubmitInsertAttempt(attemptError) ==
    /\ pc = "insertAttempt"
    /\ IF attemptError \/ quizId \notin quizzes
       THEN /\ pc' = "error"
            /\ UNCHANGED <<quiz_attempts, attempt, generated>>
       ELSE LET id == NextId(generated, "quiz_attempts")
            IN /\ quiz_attempts' = Append(quiz_attempts,
                      [id |-> id, quiz_id |-> quizId, user_id |-> user,
                       score |-> totalScore, total_points |-> totalPoints])
               /\ generated' = [generated EXCEPT !.quiz_attempts = id]
               /\ attempt' = id
               /\ pc' = "insertAnswers"
    /\ UNCHANGED <<quizzes, questions, question_options, attempt_answers,
                   user, quizId, answers, quiz, totalScore, totalPoints,
                   answerResults, analyticsVars, authVars, clientVars>>

\* answersToInsert
AnswersToInsert(results, attemptId) ==
    [i \in DOMAIN results |->
        [attempt_id |-> attemptId,
         question_id |-> results[i].questionId,
         selected_option_id |-> results[i].selectedOptionId,
         is_correct |-> results[i].isCorrect]]

\* the foreign keys of attempt_answers hold for every row of rows
ForeignKeysHold(rows) ==
    \A i \in DOMAIN rows :
        /\ \E a \in DOMAIN quiz_attempts : quiz_attempts[a].id = rows[i].attempt_id
        /\ \E q \in questions : q.id = rows[i].question_id
        /\ \E o \in question_options : o.id = rows[i].selected_option_id

\* the insert into attempt_answers resolves; on success the attempt is returned
SubmitInsertAnswers(answersError) ==
    /\ pc = "insertAnswers"
    /\ LET answersToInsert == AnswersToInsert(answerResults, attempt)
       IN IF answersError \/ ~ForeignKeysHold(answersToInsert)
          THEN /\ pc' = "error"
               /\ UNCHANGED attempt_answers
          ELSE /\ attempt_answers' = attempt_answers \o answersToInsert
               /\ pc' = "done"
    /\ UNCHANGED <<quizzes, questions, question_options, quiz_attempts, generated,
                   user, quizId, answers, quiz, totalScore, totalPoints,
                   answerResults, attempt, analyticsVars, authVars, clientVars>>

Init ==
    /\ quizzes = {}
    /\ questions = {}
    /\ question_options = {}
    /\ quiz_attempts = <<>>
    /\ attempt_answers = <<>>
    /\ pc = "idle"
    /\ user = NoUser
    /\ quizId = Undefined
    /\ answers = <<>>
    /\ quiz = NoQuiz
    /\ totalScore = 0
    /\ totalPoints = 0
    /\ answerResults = <<>>
    /\ attempt = Undefined
    /\ history = <<>>
    /\ report = NoReport
    /\ generated = NoneGenerated
    /\ editor = NoEditor
    /\ taker = NoTaker
    /\ calls = <<>>
    /\ lastSelected = <<>>
    /\ AuthIdle

Next ==
    \/ \E input \in SeqsUpTo(QuestionInputs, MaxQuestions) : CreateQuiz(input)
    \/ \E u \in Users \cup {NoUser}, id \in QuizIds, as \in SeqsUpTo(Answers, MaxAnswers) :
          SubmitGetUser(u, id, as)
    \/ SubmitSelectQuiz
    \/ \E questionsError \in BOOLEAN : SubmitGrade(questionsError)
    \/ \E attemptError \in BOOLEAN : SubmitInsertAttempt(attemptError)
    \/ \E answersError \in BOOLEAN : SubmitInsertAnswers(answersError)

Spec == Init /\ [][Next]_vars

\* ------------------------------------------------------ getQuizAnalytics
\* IEEE 754 double arithmetic of `Math.round((totalScore / totalPoints) * 100)`
\* for 0 <= totalScore <= totalPoints < 2^13.  A positive double is the
\* integer hi * Limb^2 + mid * Limb + lo times 2^-(52 + z), kept in three
\* limbs so that no intermediate result leaves 32 bits.
Limb == 2^18
NaN == -1

\* x + k units of the lowest limb, carries propagated
AddLow(x, k) ==
    LET low == x.lo + k
        middle == x.mid + (low \div Limb)
    IN [hi |-> x.hi + (middle \div Limb), mid |-> middle % Limb, lo |-> low % Limb,
        z |-> x.z]

\* x rounded to 53 significant bits, ties to even: the d bits beyond the
\* 53rd are cleared and decide whether the 53rd is bumped
RoundToPrecision(x) ==
    LET d == CHOOSE n \in 0..13 : x.hi < 2^(17 + n) /\ (n = 0 \/ x.hi >= 2^(16 + n))
        dropped == x.lo % 2^d
        odd == (x.lo \div 2^d) % 2 = 1
        up == 2 * dropped > 2^d \/ (2 * dropped = 2^d /\ odd)
        cleared == [x EXCEPT !.lo = @ - dropped]
    IN IF up THEN AddLow(cleared, 2^d) ELSE cleared

\* the double nearest to a / b, for 0 < a <= b: long division limb by limb,
\* the last remainder decides the rounding
Divide(a, b) ==
    LET z == CHOOSE n \in 0..13 : a * 2^n >= b /\ (n = 0 \/ a * 2^(n - 1) < b)
        x0 == a * 2^z * 2^16
        x1 == (x0 % b) * Limb
        x2 == (x1 % b) * Limb
        rest == x2 % b
        quotient == [hi |-> x0 \div b, mid |-> x1 \div b, lo |-> x2 \div b, z |-> z]
        up == 2 * rest > b \/ (2 * rest = b /\ quotient.lo % 2 = 1)
    IN IF up THEN AddLow(quotient, 1) ELSE quotient

\* the double nearest to x * c, for a small positive integer c
Multiply(x, c) ==
    LET low == x.lo * c
        middle == x.mid * c + (low \div Limb)
    IN RoundToPrecision([hi |-> x.hi * c + (middle \div Limb),
                         mid |-> middle % Limb, lo |-> low % Limb, z |-> x.z])

\* Math.round of a positive double below 2^14: the nearest integer, ties upwards
MathRound(x) ==
    (x.hi \div 2^(16 + x.z)) + ((x.hi \div 2^(15 + x.z)) % 2)

\* Math.round((score / points) * 100) for 0 <= score <= points
Percentage(score, points) ==
    IF points = 0 THEN NaN
    ELSE IF score = 0 THEN 0
    ELSE MathRound(Multiply(Divide(score, points), 100))

\* a new group of quizStats / userStats
NewStat(key, label) ==
    [key |-> key, label |-> label, attempts |-> 0, totalScore |-> 0, totalPoints |-> 0]

\* AddToStats that counts only the attempts after the one that opened the group
AddToStatsSkipsFirst(stats, key, label, row) ==
    LET i == FindIndex(stats, "key", key)
    IN IF i = 0
       THEN Append(stats, [NewStat(key, label) EXCEPT
                               !.totalScore = @ + row.score,
                               !.totalPoints = @ + row.total_points])
       ELSE [stats EXCEPT ![i].attempts = @ + 1,
                          ![i].totalScore = @ + row.score,
                          ![i].totalPoints = @ + row.total_points]

\* AddToStats that puts a new group in front of the groups seen before
AddToStatsPrepends(stats, key, label, row) ==
    LET i == FindIndex(stats, "key", key)
        withKey == IF i = 0 THEN <<NewStat(key, label)>> \o stats ELSE stats
        j == IF i = 0 THEN 1 ELSE i
    IN [withKey EXCEPT ![j].attempts = @ + 1,
                       ![j].totalScore = @ + row.score,
                       ![j].totalPoints = @ + row.total_points]

\* one attempt added to a Map of stats (a Map iterates in insertion order):
\* `if (!stats.has(key)) stats.set(key, {...})`, then the three increments
AddToStats(stats, key, label, row) ==
    LET i == FindIndex(stats, "key", key)
        withKey == IF i = 0 THEN Append(stats, NewStat(key, label)) ELSE stats
        j == IF i = 0 THEN Len(withKey) ELSE i
    IN [withKey EXCEPT ![j].attempts = @ + 1,
                       ![j].totalScore = @ + row.score,
                       ![j].totalPoints = @ + row.total_points]

UnknownQuiz == "Unknown Quiz"
UnknownUser == "Unknown User"
\* `value || fallback` for a string that is "" when the joined row is null
OrElse(value, fallback) == IF value = "" THEN fallback ELSE value

\* ScanAttempts that starts from a group for the unknown quiz
RECURSIVE ScanAttemptsSeedsUnknown(_, _)
ScanAttemptsSeedsUnknown(attempts, n) ==
    IF n = 0 THEN [quizStats |-> <<NewStat(Undefined, UnknownQuiz)>>, userStats |-> <<>>]
    ELSE LET before == ScanAttemptsSeedsUnknown(attempts, n - 1)
             row == attempts[n]
         IN [quizStats |-> AddToStats(before.quizStats, row.quiz_id,
                                      OrElse(row.title, UnknownQuiz), row),
             userStats |-> AddToStats(before.userStats, row.user_id,
                                      OrElse(row.full_name, UnknownUser), row)]

\* attempts.forEach over attempts[1..n]
RECURSIVE ScanAttempts(_, _)
ScanAttempts(attempts, n) ==
    IF n = 0 THEN [quizStats |-> <<>>, userStats |-> <<>>]
    ELSE LET before == ScanAttempts(attempts, n - 1)
             row == attempts[n]
         IN [quizStats |-> AddToStats(before.quizStats, row.quiz_id,
                                      OrElse(row.title, UnknownQuiz), row),
             userStats |-> AddToStats(before.userStats, row.user_id,
                                      OrElse(row.full_name, UnknownUser), row)]

\* stat.attempts > 0 ? Math.round((stat.totalScore / stat.totalPoints) * 100) : 0
AverageScore(stat) ==
    IF stat.attempts > 0 THEN Percentage(stat.totalScore, stat.totalPoints) ELSE 0

QuizAnalytics(quizStats) ==
    [k \in DOMAIN quizStats |->
        [quizTitle |-> quizStats[k].label,
         attempts |-> quizStats[k].attempts,
         averageScore |-> AverageScore(quizStats[k])]]

TraineeRecords(userStats) ==
    [k \in DOMAIN userStats |->
        [userId |-> userStats[k].key,
         userName |-> userStats[k].label,
         attempts |-> userStats[k].attempts,
         averageScore |-> AverageScore(userStats[k])]]

\* the comparator (a, b) => b.averageScore - a.averageScore as sort sees it:
\* a NaN result counts as +0
CompareFn(a, b) ==
    IF a.averageScore = NaN \/ b.averageScore = NaN THEN 0
    ELSE b.averageScore - a.averageScore

\* CompareFn is a consistent comparator for the elements of list
Consistent(list) ==
    \A i, j, k \in DOMAIN list :
        (CompareFn(list[i], list[j]) = 0 /\ CompareFn(list[j], list[k]) = 0)
            => CompareFn(list[i], list[k]) = 0

\* x put into the sorted sequence, behind every element it does not precede
RECURSIVE InsertSorted(_, _)
InsertSorted(sorted, x) ==
    IF sorted = <<>> THEN <<x>>
    ELSE IF CompareFn(x, sorted[Len(sorted)]) >= 0 THEN Append(sorted, x)
         ELSE Append(InsertSorted(SubSeq(sorted, 1, Len(sorted) - 1), x),
                     sorted[Len(sorted)])

\* the stable sort of list[1..n] by CompareFn
RECURSIVE StableSort(_, _)
StableSort(list, n) ==
    IF n = 0 THEN <<>> ELSE InsertSorted(StableSort(list, n - 1), list[n])

Reorderings(list) ==
    {[i \in DOMAIN list |-> list[f[i]]] :
        f \in {g \in [DOMAIN list -> DOMAIN list] :
                  \A a, b \in DOMAIN list : g[a] = g[b] => a = b}}

\* what Array.prototype.sort may leave: the stable order for a consistent
\* comparator; otherwise the order is implementation-defined, and a
\* comparison sort leaves no two neighbours that CompareFn orders the other
\* way round
SortOutcomes(list) ==
    IF Consistent(list) THEN {StableSort(list, Len(list))}
    ELSE {p \in Reorderings(list) :
             \A i \in 1..(Len(p) - 1) : CompareFn(p[i], p[i + 1]) <= 0}

TopN == 10
\* .slice(0, TopN)
Slice(list, n) == SubSeq(list, 1, IF Len(list) < n THEN Len(list) ELSE n)

\* the rows of the quiz_attempts select: newest first, each with the title of
\* its quiz and the full name of its profile
QuizTitle(id) == IF id \in quizzes THEN ToString(id) ELSE ""
SelectAttempts ==
    [i \in DOMAIN quiz_attempts |->
        LET row == quiz_attempts[Len(quiz_attempts) + 1 - i]
        IN [quiz_id |-> row.quiz_id, user_id |-> row.user_id,
            score |-> row.score, total_points |-> row.total_points,
            title |-> QuizTitle(row.quiz_id), full_name |-> row.user_id]]

\* getQuizAnalytics: the select resolves; with an error the call throws and
\* returns nothing
GetQuizAnalytics(error) ==
    /\ IF error
       THEN UNCHANGED analyticsVars
       ELSE LET attempts == SelectAttempts
                stats == ScanAttempts(attempts, Len(attempts))
            IN \E sorted \in SortOutcomes(TraineeRecords(stats.userStats)) :
                  /\ history' = attempts
                  /\ report' = [totalAttempts |-> Len(attempts),
                                quizAnalytics |-> QuizAnalytics(stats.quizStats),
                                topTrainees |-> Slice(sorted, TopN)]
    /\ UNCHANGED <<dbVars, submitVars, clientVars, authVars>>

\* ---- attempt histories for SpecAnalytics
MaxHistoryQuizzes == 2
HistoryUsers == {"u1", "u2", "u3"}
\* (score, total_points) of a stored attempt: nothing answered, 1 of 2,
\* 10 of 10, 0 of 90, 23 of 40
ScorePairs == {<<0, 0>>, <<1, 2>>, <<10, 10>>, <<0, 90>>, <<23, 40>>}

AttemptRow(id, q, u, pair) ==
    [id |-> id, quiz_id |-> q, user_id |-> u, score |-> pair[1], total_points |-> pair[2]]

\* fifteen trainees, one attempt each, with averages 5, 10, ..., 75
SeedTrainees == <<"t01", "t02", "t03", "t04", "t05", "t06", "t07", "t08",
                  "t09", "t10", "t11", "t12", "t13", "t14", "t15">>
SeedLeaderboard ==
    [i \in DOMAIN SeedTrainees |-> AttemptRow(i, 1, SeedTrainees[i], <<16 - i, 20>>)]

\* a completed submitQuizAttempt of user u for quiz q left this attempt row
RecordAttempt(q, u, pair) ==
    /\ Len(quiz_attempts) < MaxAttempts
    /\ quiz_attempts' = Append(quiz_attempts,
                               AttemptRow(NextId(generated, "quiz_attempts"), q, u, pair))
    /\ generated' = [generated EXCEPT !.quiz_attempts = @ + 1]
    /\ UNCHANGED <<quizzes, questions, question_options, attempt_answers,
                   submitVars, analyticsVars, authVars, clientVars>>

InitAnalytics ==
    /\ quizzes = 1..MaxHistoryQuizzes
    /\ questions = {}
    /\ question_options = {}
    /\ quiz_attempts \in {<<>>, SeedLeaderboard}
    /\ attempt_answers = <<>>
    /\ pc = "idle"
    /\ user = NoUser
    /\ quizId = Undefined
    /\ answers = <<>>
    /\ quiz = NoQuiz
    /\ totalScore = 0
    /\ totalPoints = 0
    /\ answerResults = <<>>
    /\ attempt = Undefined
    /\ history = <<>>
    /\ report = NoReport
    /\ generated = [NoneGenerated EXCEPT !.quizzes = MaxHistoryQuizzes,
                                         !.quiz_attempts = Len(quiz_attempts)]
    /\ editor = NoEditor
    /\ taker = NoTaker
    /\ calls = <<>>
    /\ lastSelected = <<>>
    /\ AuthIdle

NextAnalytics ==
    \/ \E q \in 1..MaxHistoryQuizzes, u \in HistoryUsers, pair \in ScorePairs :
          RecordAttempt(q, u, pair)
    \/ \E error \in BOOLEAN : GetQuizAnalytics(error)

SpecAnalytics == InitAnalytics /\ [][NextAnalytics]_vars

\* ------------------------------------------------- updateQuiz, deleteQuiz
\* the quiz of SpecEdit and SpecTaker as the quiz editor handed it to createQuiz: two
\* questions of two options each, the first option correct in the first
\* question and the second in the second
TakerQuizInput ==
    <<[options |-> <<1, 2>>, correctOptionId |-> 1],
      [options |-> <<1, 2>>, correctOptionId |-> 2]>>

\* ids updateQuiz may generate for questions beyond those of the first quiz
MaxEditedRows == 1

\* CascadeDelete without the cascade from questions to question_options
CascadeDeleteKeepsOptions(quizIds, questionRows) ==
    LET deadQuestions == questionRows \cup {q \in questions : q.quiz_id \in quizIds}
        deadQuestionIds == {q.id : q \in deadQuestions}
        deadAttemptIds == {quiz_attempts[a].id :
                              a \in {b \in DOMAIN quiz_attempts :
                                        quiz_attempts[b].quiz_id \in quizIds}}
    IN [rejected |-> FALSE,
        quizzes |-> quizzes \ quizIds,
        questions |-> questions \ deadQuestions,
        question_options |-> question_options,
        quiz_attempts |-> SelectSeq(quiz_attempts,
                                    LAMBDA row : row.quiz_id \notin quizIds),
        attempt_answers |-> SelectSeq(attempt_answers,
                                LAMBDA row : /\ row.attempt_id \notin deadAttemptIds
                                             /\ row.question_id \notin deadQuestionIds)]

\* CascadeDelete without the cascade from questions to attempt_answers
CascadeDeleteKeepsAnswers(quizIds, questionRows) ==
    LET deadQuestions == questionRows \cup {q \in questions : q.quiz_id \in quizIds}
        deadQuestionIds == {q.id : q \in deadQuestions}
        deadOptions == {o \in question_options : o.question_id \in deadQuestionIds}
        deadAttemptIds == {quiz_attempts[a].id :
                              a \in {b \in DOMAIN quiz_attempts :
                                        quiz_attempts[b].quiz_id \in quizIds}}
    IN [rejected |-> FALSE,
        quizzes |-> quizzes \ quizIds,
        questions |-> questions \ deadQuestions,
        question_options |-> question_options \ deadOptions,
        quiz_attempts |-> SelectSeq(quiz_attempts,
                                    LAMBDA row : row.quiz_id \notin quizIds),
        attempt_answers |-> SelectSeq(attempt_answers,
                                LAMBDA row : row.attempt_id \notin deadAttemptIds)]

\* what a DELETE of the quizzes rows quizIds and of the questions rows
\* questionRows leaves: ON DELETE CASCADE removes the questions and attempts
\* of the quizzes, the options of the questions and the attempt_answers of
\* the questions and attempts; attempt_answers.selected_option_id has no
\* ON DELETE action, so the statement is rejected when a row that is left
\* selects a removed option
CascadeDelete(quizIds, questionRows) ==
    LET deadQuestions == questionRows \cup {q \in questions : q.quiz_id \in quizIds}
        deadQuestionIds == {q.id : q \in deadQuestions}
        deadOptions == {o \in question_options : o.question_id \in deadQuestionIds}
        deadOptionIds == {o.id : o \in deadOptions}
        deadAttemptIds == {quiz_attempts[a].id :
                              a \in {b \in DOMAIN quiz_attempts :
                                        quiz_attempts[b].quiz_id \in quizIds}}
        left == SelectSeq(attempt_answers,
                          LAMBDA row : /\ row.attempt_id \notin deadAttemptIds
                                       /\ row.question_id \notin deadQuestionIds)
    IN [rejected |-> \E i \in DOMAIN left : left[i].selected_option_id \in deadOptionIds,
        quizzes |-> quizzes \ quizIds,
        questions |-> questions \ deadQuestions,
        question_options |-> question_options \ deadOptions,
        quiz_attempts |-> SelectSeq(quiz_attempts,
                                    LAMBDA row : row.quiz_id \notin quizIds),
        attempt_answers |-> left]

\* deleteQuiz(id): the delete on quizzes resolves
DeleteQuiz(id, error) ==
    /\ LET after == CascadeDelete({id}, {})
       IN IF error \/ after.rejected
          THEN UNCHANGED dbVars
          ELSE /\ quizzes' = after.quizzes
               /\ questions' = after.questions
               /\ question_options' = after.question_options
               /\ quiz_attempts' = after.quiz_attempts
               /\ attempt_answers' = after.attempt_answers
               /\ UNCHANGED generated
    /\ UNCHANGED <<submitVars, analyticsVars, authVars, clientVars>>

\* the stored questions of quiz id and their options
StoredQuiz(id) ==
    LET rows == {q \in questions : q.quiz_id = id}
    IN [questions |-> rows,
        question_options |-> {o \in question_options :
                                 \E q \in rows : o.question_id = q.id}]

\* updateQuiz(id, quiz) is called and the update on quizzes resolves;
\* hasQuestions tells whether quiz.questions is given; before keeps what
\* was stored for the quiz when the call was made
UpdateQuiz(id, hasQuestions, input, quizError) ==
    /\ editor.pc = "idle"
    /\ generated.questions + Len(input) <= MaxQuestionRows + MaxEditedRows
    /\ editor' = IF quizError THEN NoEditor
                 ELSE [pc |-> IF hasQuestions THEN "deleteQuestions" ELSE "getQuiz",
                       id |-> id, hasQuestions |-> hasQuestions,
                       questions |-> IF hasQuestions THEN input ELSE <<>>,
                       i |-> 0,
                       before |-> StoredQuiz(id)]
    /\ UNCHANGED <<dbVars, submitVars, analyticsVars, authVars, taker, calls, lastSelected>>

\* updateQuiz: the delete on questions resolves
UpdateQuizDeleteQuestions(deleteQuestionsError) ==
    /\ editor.pc = "deleteQuestions"
    /\ LET after == CascadeDelete({}, {q \in questions : q.quiz_id = editor.id})
       IN IF deleteQuestionsError \/ after.rejected
          THEN /\ editor' = NoEditor
               /\ UNCHANGED dbVars
          ELSE /\ questions' = after.questions
               /\ question_options' = after.question_options
               /\ attempt_answers' = after.attempt_answers
               /\ editor' = [editor EXCEPT
                                !.pc = IF Len(editor.questions) > 0
                                       THEN "insertQuestion" ELSE "getQuiz"]
               /\ UNCHANGED <<quizzes, quiz_attempts, generated>>
    /\ UNCHANGED <<submitVars, analyticsVars, authVars, taker, calls, lastSelected>>

\* updateQuiz: the insert of question i into questions resolves; its
\* quiz_id must reference a quizzes row
UpdateQuizInsertQuestion(questionError) ==
    /\ editor.pc = "insertQuestion"
    /\ IF questionError \/ editor.id \notin quizzes
       THEN /\ editor' = NoEditor
            /\ UNCHANGED dbVars
       ELSE LET newQuestion == [id |-> NextId(generated, "questions"),
                                quiz_id |-> editor.id,
                                order_index |-> editor.i, points |-> 1]
            IN /\ questions' = questions \cup {newQuestion}
               /\ generated' = [generated EXCEPT !.questions = newQuestion.id]
               /\ editor' = [editor EXCEPT !.pc = "insertOptions"]
               /\ UNCHANGED <<quizzes, question_options, quiz_attempts,
                              attempt_answers>>
    /\ UNCHANGED <<submitVars, analyticsVars, authVars, taker, calls, lastSelected>>

\* updateQuiz: the insert of the options of question i resolves; their
\* question_id, the id of the row inserted last, must reference a questions row
UpdateQuizInsertOptions(optionsError) ==
    /\ editor.pc = "insertOptions"
    /\ LET question == editor.questions[editor.i + 1]
           newQuestionId == generated.questions
           optionsToInsert == OptionsToInsert(question, newQuestionId, generated)
       IN IF \/ optionsError
             \/ (optionsToInsert # {} /\ \A q \in questions : q.id # newQuestionId)
          THEN /\ editor' = NoEditor
               /\ UNCHANGED dbVars
          ELSE /\ question_options' = question_options \cup optionsToInsert
               /\ generated' = [generated EXCEPT
                                   !.question_options = @ + Len(question.options)]
               /\ editor' = [editor EXCEPT
                                !.i = @ + 1,
                                !.pc = IF editor.i + 1 < Len(editor.questions)
                                       THEN "insertQuestion" ELSE "getQuiz"]
               /\ UNCHANGED <<quizzes, questions, quiz_attempts, attempt_answers>>
    /\ UNCHANGED <<submitVars, analyticsVars, authVars, taker, calls, lastSelected>>

\* updateQuiz: getQuizById resolves or throws, and updateQuiz with it
UpdateQuizReturn ==
    /\ editor.pc = "getQuiz"
    /\ editor' = NoEditor
    /\ UNCHANGED <<dbVars, submitVars, analyticsVars, authVars, taker, calls, lastSelected>>

\* the answers a trainee can send who loaded the first quiz before any edit
LoadedAnswers ==
    [questionId : 1..MaxQuestions, selectedOptionId : 1..(MaxQuestions * MaxOptions)]

InitEdit ==
    /\ LET tables == InsertQuestions(TakerQuizInput, 1, 1,
                        [questions |-> {}, question_options |-> {},
                         generated |-> [NoneGenerated EXCEPT !.quizzes = 1]])
       IN /\ quizzes = {1}
          /\ questions = tables.questions
          /\ question_options = tables.question_options
          /\ generated = tables.generated
    /\ quiz_attempts = <<>>
    /\ attempt_answers = <<>>
    /\ pc = "idle"
    /\ user = NoUser
    /\ quizId = Undefined
    /\ answers = <<>>
    /\ quiz = NoQuiz
    /\ totalScore = 0
    /\ totalPoints = 0
    /\ answerResults = <<>>
    /\ attempt = Undefined
    /\ history = <<>>
    /\ report = NoReport
    /\ editor = NoEditor
    /\ taker = NoTaker
    /\ calls = <<>>
    /\ lastSelected = <<>>
    /\ AuthIdle

NextEdit ==
    \/ \E u \in Users, id \in QuizIds, as \in SeqsUpTo(LoadedAnswers, MaxAnswers) :
          SubmitGetUser(u, id, as)
    \/ SubmitSelectQuiz
    \/ \E questionsError \in BOOLEAN : SubmitGrade(questionsError)
    \/ \E attemptError \in BOOLEAN : SubmitInsertAttempt(attemptError)
    \/ \E answersError \in BOOLEAN : SubmitInsertAnswers(answersError)
    \/ \E id \in QuizIds, error \in BOOLEAN : DeleteQuiz(id, error)
    \/ \E id \in QuizIds, hasQuestions \in BOOLEAN, quizError \in BOOLEAN,
          input \in SeqsUpTo(QuestionInputs, MaxEditedRows) :
          UpdateQuiz(id, hasQuestions, input, quizError)
    \/ \E deleteQuestionsError \in BOOLEAN : UpdateQuizDeleteQuestions(deleteQuestionsError)
    \/ \E questionError \in BOOLEAN : UpdateQuizInsertQuestion(questionError)
    \/ \E optionsError \in BOOLEAN : UpdateQuizInsertOptions(optionsError)
    \/ UpdateQuizReturn

SpecEdit == InitEdit /\ [][NextEdit]_vars

\* ---- two stored quizzes and an administrator (SpecAuthor)
MaxAuthorQuizzes == 2

\* the first quiz has one question with the first of two options correct,
\* the second quiz one question with the second of two options correct
AuthorQuizInputs ==
    <<<<[options |-> <<1, 2>>, correctOptionId |-> 1]>>,
      <<[options |-> <<1, 2>>, correctOptionId |-> 2]>>>>

\* the tables after createQuiz has stored AuthorQuizInputs[1..n]
RECURSIVE AuthorTables(_)
AuthorTables(n) ==
    IF n = 0 THEN [questions |-> {}, question_options |-> {}, generated |-> NoneGenerated]
    ELSE LET before == AuthorTables(n - 1)
         IN InsertQuestions(AuthorQuizInputs[n], 1, n,
                [before EXCEPT !.generated.quizzes = n])

\* attempts stored before the administrator acts: none; one of the first
\* quiz; one of the second quiz whose answer selects an option of the first
AuthorAttempts ==
    {[quiz_attempts |-> <<>>, attempt_answers |-> <<>>],
     [quiz_attempts |-> <<[id |-> 1, quiz_id |-> 1, user_id |-> "u1",
                           score |-> 1, total_points |-> 1]>>,
      attempt_answers |-> <<[attempt_id |-> 1, question_id |-> 1,
                             selected_option_id |-> 1, is_correct |-> TRUE]>>],
     [quiz_attempts |-> <<[id |-> 1, quiz_id |-> 2, user_id |-> "u1",
                           score |-> 0, total_points |-> 1]>>,
      attempt_answers |-> <<[attempt_id |-> 1, question_id |-> 2,
                             selected_option_id |-> 1, is_correct |-> FALSE]>>]}

InitAuthor ==
    /\ quizzes = 1..MaxAuthorQuizzes
    /\ questions = AuthorTables(MaxAuthorQuizzes).questions
    /\ question_options = AuthorTables(MaxAuthorQuizzes).question_options
    /\ \E stored \in AuthorAttempts :
          /\ quiz_attempts = stored.quiz_attempts
          /\ attempt_answers = stored.attempt_answers
          /\ generated = [AuthorTables(MaxAuthorQuizzes).generated EXCEPT
                             !.quiz_attempts = Len(stored.quiz_attempts)]
    /\ pc = "idle"
    /\ user = NoUser
    /\ quizId = Undefined
    /\ answers = <<>>
    /\ quiz = NoQuiz
    /\ totalScore = 0
    /\ totalPoints = 0
    /\ answerResults = <<>>
    /\ attempt = Undefined
    /\ history = <<>>
    /\ report = NoReport
    /\ editor = NoEditor
    /\ taker = NoTaker
    /\ calls = <<>>
    /\ lastSelected = <<>>
    /\ AuthIdle

NextAuthor ==
    \/ \E id \in 1..MaxAuthorQuizzes, error \in BOOLEAN : DeleteQuiz(id, error)
    \/ \E id \in 1..MaxAuthorQuizzes, hasQuestions \in BOOLEAN, quizError \in BOOLEAN,
          input \in SeqsUpTo(QuestionInputs, MaxEditedRows) :
          UpdateQuiz(id, hasQuestions, input, quizError)
    \/ \E deleteQuestionsError \in BOOLEAN : UpdateQuizDeleteQuestions(deleteQuestionsError)
    \/ \E questionError \in BOOLEAN : UpdateQuizInsertQuestion(questionError)
    \/ \E optionsError \in BOOLEAN : UpdateQuizInsertOptions(optionsError)
    \/ UpdateQuizReturn

SpecAuthor == InitAuthor /\ [][NextAuthor]_vars

\* ------------------------------------------------------------- QuizTaker
MaxCalls == 2
\* seconds on the countdown when the quiz is opened (timeLimit * 60)
MaxTime == 1

\* getQuizzes: one Quiz object per row of quizzes, newest first, each
\* formatted like the one of getQuizById
RECURSIVE GetQuizzes(_)
GetQuizzes(ids) ==
    IF ids = {} THEN <<>>
    ELSE <<FormatQuiz(Max(ids), questions, question_options)>>
            \o GetQuizzes(ids \ {Max(ids)})

\* QuizList has loaded the quizzes with getQuizzes and the trainee starts the
\* k-th of them: QuizTaker is mounted with its initial state
StartQuiz(k, seconds) ==
    /\ taker = NoTaker
    /\ k \in DOMAIN GetQuizzes(quizzes)
    /\ Len(GetQuizzes(quizzes)[k].questions) > 0
    /\ taker' = [quiz |-> GetQuizzes(quizzes)[k],
                 currentQuestionIndex |-> 0,
                 answers |-> <<>>,
                 timeRemaining |-> seconds,
                 submitted |-> FALSE,
                 result |-> NoResult]
    /\ lastSelected' = [id \in {GetQuizzes(quizzes)[k].questions[i].id :
                                   i \in DOMAIN GetQuizzes(quizzes)[k].questions} |-> 0]
    /\ UNCHANGED <<dbVars, submitVars, analyticsVars, authVars, editor, calls>>

\* the quiz view (not the result view) is rendered
QuizView == taker # NoTaker /\ ~taker.submitted

\* const currentQuestion = quiz.questions[currentQuestionIndex]
CurrentQuestion == taker.quiz.questions[taker.currentQuestionIndex + 1]

\* SelectOption without the findIndex test: every click adds an answer
SelectOptionAlwaysAppends(as, questionId, optionId) ==
    Append(as, [questionId |-> questionId, selectedOptionId |-> optionId])

\* the array handleSelectOption passes to setAnswers
SelectOption(as, questionId, optionId) ==
    LET existingIndex == FindIndex(as, "questionId", questionId)
        answer == [questionId |-> questionId, selectedOptionId |-> optionId]
    IN IF existingIndex > 0 THEN [as EXCEPT ![existingIndex] = answer]
       ELSE Append(as, answer)

\* a click on the j-th option button of the current question
HandleSelectOption(j) ==
    /\ QuizView
    /\ j \in DOMAIN CurrentQuestion.options
    /\ taker' = [taker EXCEPT !.answers =
                    SelectOption(@, CurrentQuestion.id, CurrentQuestion.options[j].id)]
    /\ lastSelected' = [lastSelected EXCEPT ![CurrentQuestion.id] =
                            CurrentQuestion.options[j].id]
    /\ UNCHANGED <<dbVars, submitVars, analyticsVars, authVars, editor, calls>>

HandleNext ==
    /\ QuizView
    /\ taker.currentQuestionIndex < Len(taker.quiz.questions) - 1
    /\ taker' = [taker EXCEPT !.currentQuestionIndex = @ + 1]
    /\ UNCHANGED <<dbVars, submitVars, analyticsVars, authVars, editor, calls, lastSelected>>

HandlePrevious ==
    /\ QuizView
    /\ taker.currentQuestionIndex > 0
    /\ taker' = [taker EXCEPT !.currentQuestionIndex = @ - 1]
    /\ UNCHANGED <<dbVars, submitVars, analyticsVars, authVars, editor, calls, lastSelected>>

\* handleSubmit up to its await: submitQuizAttempt(quiz.id, answers) is called
NewCall(id, as) ==
    [pc |-> "getUser", quizId |-> id, answers |-> as, quiz |-> NoQuiz,
     totalScore |-> 0, totalPoints |-> 0, answerResults |-> <<>>,
     attempt |-> Undefined]

\* a click on Submit Quiz, which is rendered on the last question and
\* enabled when answers.length === quiz.questions.length
ClickSubmit ==
    /\ QuizView
    /\ taker.currentQuestionIndex >= Len(taker.quiz.questions) - 1
    /\ Len(taker.answers) = Len(taker.quiz.questions)
    /\ Len(calls) < MaxCalls
    /\ calls' = Append(calls, NewCall(taker.quiz.id, taker.answers))
    /\ UNCHANGED <<dbVars, submitVars, analyticsVars, authVars, editor, taker, lastSelected>>

\* Tick without the prev <= 0 test: the countdown goes on below zero and
\* handleSubmit is never called
TickBelowZero ==
    /\ QuizView
    /\ taker.timeRemaining # NoTimeLimit
    /\ taker' = [taker EXCEPT !.timeRemaining = @ - 1]
    /\ UNCHANGED <<dbVars, submitVars, analyticsVars, authVars, editor, calls, lastSelected>>

\* the setInterval callback of the timer effect, which runs while
\* timeRemaining is not null and submitted is false
Tick ==
    /\ QuizView
    /\ taker.timeRemaining # NoTimeLimit
    /\ IF taker.timeRemaining <= 0
       THEN /\ Len(calls) < MaxCalls
            /\ calls' = Append(calls, NewCall(taker.quiz.id, taker.answers))
            /\ taker' = [taker EXCEPT !.timeRemaining = 0]
       ELSE /\ taker' = [taker EXCEPT !.timeRemaining = @ - 1]
            /\ UNCHANGED calls
    /\ UNCHANGED <<dbVars, submitVars, analyticsVars, authVars, editor, lastSelected>>

\* the signed-in trainee of SpecTaker
TakerUser == "u1"

\* the k-th submitQuizAttempt call of handleSubmit resumes from its pending
\* await, which has failed or not; when the call returns, handleSubmit goes
\* on with setResult and setSubmitted, and when it throws, handleSubmit
\* only logs the error
CallStep(k, fails) ==
    LET c == calls[k]
        stop == [calls EXCEPT ![k].pc = "error"]
    IN
    /\ c.pc \notin {"done", "error"}
    /\ CASE c.pc = "getUser" ->
              /\ calls' = IF fails THEN stop ELSE [calls EXCEPT ![k].pc = "getQuiz"]
              /\ UNCHANGED <<dbVars, taker>>
         [] c.pc = "getQuiz" ->
              /\ calls' = IF fails \/ c.quizId \notin quizzes THEN stop
                          ELSE [calls EXCEPT ![k].pc = "getQuestions"]
              /\ UNCHANGED <<dbVars, taker>>
         [] c.pc = "getQuestions" ->
              /\ calls' =
                    IF fails THEN stop
                    ELSE LET q == FormatQuiz(c.quizId, questions, question_options)
                             g == GradeLoop(q, c.answers, Len(c.answers))
                         IN [calls EXCEPT ![k] =
                                [c EXCEPT !.pc = "insertAttempt",
                                          !.quiz = q,
                                          !.totalScore = g.totalScore,
                                          !.totalPoints = g.totalPoints,
                                          !.answerResults = g.answerResults]]
              /\ UNCHANGED <<dbVars, taker>>
         [] c.pc = "insertAttempt" ->
              IF fails \/ c.quizId \notin quizzes
              THEN /\ calls' = stop
                   /\ UNCHANGED <<dbVars, taker>>
              ELSE LET id == NextId(generated, "quiz_attempts")
                   IN /\ quiz_attempts' = Append(quiz_attempts,
                             [id |-> id, quiz_id |-> c.quizId, user_id |-> TakerUser,
                              score |-> c.totalScore, total_points |-> c.totalPoints])
                      /\ generated' = [generated EXCEPT !.quiz_attempts = id]
                      /\ calls' = [calls EXCEPT ![k].pc = "insertAnswers",
                                                ![k].attempt = id]
                      /\ UNCHANGED <<quizzes, questions, question_options,
                                     attempt_answers, taker>>
         [] c.pc = "insertAnswers" ->
              LET answersToInsert == AnswersToInsert(c.answerResults, c.attempt)
              IN IF fails \/ ~ForeignKeysHold(answersToInsert)
                 THEN /\ calls' = stop
                      /\ UNCHANGED <<dbVars, taker>>
                 ELSE /\ attempt_answers' = attempt_answers \o answersToInsert
                      /\ calls' = [calls EXCEPT ![k].pc = "done"]
                      /\ taker' = [taker EXCEPT
                                      !.result = [id |-> c.attempt,
                                                  score |-> c.totalScore,
                                                  totalPoints |-> c.totalPoints,
                                                  answers |-> c.answerResults],
                                      !.submitted = TRUE]
                      /\ UNCHANGED <<quizzes, questions, question_options,
                                     quiz_attempts, generated>>
    /\ UNCHANGED <<submitVars, analyticsVars, authVars, editor, lastSelected>>

InitTaker ==
    /\ LET tables == InsertQuestions(TakerQuizInput, 1, 1,
                        [questions |-> {}, question_options |-> {},
                         generated |-> [NoneGenerated EXCEPT !.quizzes = 1]])
       IN /\ quizzes = {1}
          /\ questions = tables.questions
          /\ question_options = tables.question_options
          /\ generated = tables.generated
    /\ quiz_attempts = <<>>
    /\ attempt_answers = <<>>
    /\ pc = "idle"
    /\ user = NoUser
    /\ quizId = Undefined
    /\ answers = <<>>
    /\ quiz = NoQuiz
    /\ totalScore = 0
    /\ totalPoints = 0
    /\ answerResults = <<>>
    /\ attempt = Undefined
    /\ history = <<>>
    /\ report = NoReport
    /\ editor = NoEditor
    /\ taker = NoTaker
    /\ calls = <<>>
    /\ lastSelected = <<>>
    /\ AuthIdle

NextTaker ==
    \/ \E k \in 1..MaxQuizzes, seconds \in {NoTimeLimit, MaxTime} : StartQuiz(k, seconds)
    \/ \E j \in 1..MaxOptions : HandleSelectOption(j)
    \/ HandleNext
    \/ HandlePrevious
    \/ ClickSubmit
    \/ Tick
    \/ \E k \in DOMAIN calls, fails \in BOOLEAN : CallStep(k, fails)

SpecTaker == InitTaker /\ [][NextTaker]_vars

\* the interval of the timer effect keeps firing once a second for as long
\* as the effect is in place
SpecTakerFair == SpecTaker /\ WF_vars(Tick)

\* ------------------------------------------- QuizTaker during updateQuiz
\* a trainee takes the stored quiz, which has no time limit, in QuizTaker
\* while an administrator calls updateQuiz on it
\* the questions the administrator submits: the quiz cut down to its first
\* question
SessionEdits == {SubSeq(TakerQuizInput, 1, MaxEditedRows)}

NextSession ==
    \/ \E k \in 1..MaxQuizzes : StartQuiz(k, NoTimeLimit)
    \/ \E j \in 1..MaxOptions : HandleSelectOption(j)
    \/ HandleNext
    \/ HandlePrevious
    \/ ClickSubmit
    \/ \E k \in DOMAIN calls, fails \in BOOLEAN : CallStep(k, fails)
    \/ \E id \in QuizIds, quizError \in BOOLEAN, input \in SessionEdits :
          UpdateQuiz(id, TRUE, input, quizError)
    \/ \E deleteQuestionsError \in BOOLEAN : UpdateQuizDeleteQuestions(deleteQuestionsError)
    \/ \E questionError \in BOOLEAN : UpdateQuizInsertQuestion(questionError)
    \/ \E optionsError \in BOOLEAN : UpdateQuizInsertOptions(optionsError)
    \/ UpdateQuizReturn

SpecSession == InitTaker /\ [][NextSession]_vars

\* ----------------------------------------------------- row-level policies
\* the accounts of SpecPolicy: two trainees and an administrator
Accounts == {"u1", "u2", "a1"}
Roles == {"trainee", "admin"}

\* EXISTS (SELECT 1 FROM profiles
\*         WHERE profiles.id = auth.uid() AND profiles.role = 'admin')
IsAdmin(uid) == \E p \in profiles : p.id = uid /\ p.role = "admin"

\* a SELECT policy on quiz_attempts without the owner test
ViewAttemptsOfAnyone(uid, row) == uid # NoUser

\* the SELECT policies of quiz_attempts, TO authenticated: "Users can view
\* own attempts" or "Admins can view all attempts"
ViewAttempts(uid, row) ==
    uid # NoUser /\ (uid = row.user_id \/ IsAdmin(uid))

\* the INSERT policy of quiz_attempts: "Users can create own attempts"
CreateOwnAttempts(uid, row) == uid # NoUser /\ uid = row.user_id

\* the UPDATE policy of profiles: "Users can update own profile"
UpdateOwnProfile(uid, row) == uid # NoUser /\ uid = row.id

\* a client signs in as u, or signs out (u = NoUser): the requests it sends
\* from then on carry auth.uid() = u
SetSession(u) ==
    /\ u \in auth_users \cup {NoUser}
    /\ session' = u
    /\ UNCHANGED <<dbVars, submitVars, analyticsVars, clientVars, auth_users,
                   profiles, appUser, callbacks, authCall, visible>>

\* an insert into quiz_attempts sent by the signed-in client with any
\* user_id; a row that fails the policy or a foreign key is rejected
InsertQuizAttempt(userId, id) ==
    LET row == [id |-> NextId(generated, "quiz_attempts"), quiz_id |-> id,
                user_id |-> userId, score |-> 0, total_points |-> 0]
    IN /\ Len(quiz_attempts) < MaxAttempts
       /\ IF /\ CreateOwnAttempts(session, row)
             /\ id \in quizzes
             /\ \E p \in profiles : p.id = userId
          THEN /\ quiz_attempts' = Append(quiz_attempts, row)
               /\ generated' = [generated EXCEPT !.quiz_attempts = row.id]
          ELSE UNCHANGED <<quiz_attempts, generated>>
       /\ UNCHANGED <<quizzes, questions, question_options, attempt_answers,
                      submitVars, analyticsVars, clientVars, authVars>>

\* getQuizAttempts(userId) of the signed-in client: the rows the policies
\* let it see, newest first, restricted to userId when one is given
GetQuizAttempts(userId) ==
    LET Seen(row) == /\ ViewAttempts(session, row)
                     /\ userId # NoUser => row.user_id = userId
        data == SelectSeq(quiz_attempts, Seen)
    IN /\ visible' = [uid |-> session, admin |-> IsAdmin(session),
                      userId |-> userId,
                      rows |-> [i \in DOMAIN data |-> data[Len(data) + 1 - i]],
                      total |-> Len(quiz_attempts)]
       /\ UNCHANGED <<dbVars, submitVars, analyticsVars, clientVars, auth_users,
                      profiles, session, appUser, callbacks, authCall>>

\* an update of profiles.role sent by the signed-in client for the row id;
\* it applies to the rows the policy lets the client update
UpdateProfileRole(id, role) ==
    /\ profiles' = {IF p.id = id /\ UpdateOwnProfile(session, p)
                    THEN [p EXCEPT !.role = role] ELSE p : p \in profiles}
    /\ UNCHANGED <<dbVars, submitVars, analyticsVars, clientVars, auth_users,
                   session, appUser, callbacks, authCall, visible>>

InitPolicy ==
    /\ quizzes = QuizIds
    /\ questions = {}
    /\ question_options = {}
    /\ generated = [NoneGenerated EXCEPT !.quizzes = MaxQuizzes]
    /\ quiz_attempts = <<>>
    /\ attempt_answers = <<>>
    /\ pc = "idle"
    /\ user = NoUser
    /\ quizId = Undefined
    /\ answers = <<>>
    /\ quiz = NoQuiz
    /\ totalScore = 0
    /\ totalPoints = 0
    /\ answerResults = <<>>
    /\ attempt = Undefined
    /\ history = <<>>
    /\ report = NoReport
    /\ editor = NoEditor
    /\ taker = NoTaker
    /\ calls = <<>>
    /\ lastSelected = <<>>
    /\ auth_users = Accounts
    /\ profiles = {[id |-> u, role |-> IF u = "a1" THEN "admin" ELSE "trainee"] :
                      u \in Accounts}
    /\ session = NoUser
    /\ appUser = NoAppUser
    /\ callbacks = <<>>
    /\ authCall = NoAuthCall
    /\ visible = NoRows

NextPolicy ==
    \/ \E u \in Accounts \cup {NoUser} : SetSession(u)
    \/ \E userId \in Accounts, id \in QuizIds : InsertQuizAttempt(userId, id)
    \/ \E userId \in Accounts \cup {NoUser} : GetQuizAttempts(userId)
    \/ \E id \in Accounts, role \in Roles : UpdateProfileRole(id, role)

SpecPolicy == InitPolicy /\ [][NextPolicy]_vars

\* ------------------------------------------------- AuthProvider and login
MaxCallbacks == 3
\* the accounts of SpecAuth, and the ids auth.signUp can give a new account
Members == {"u1", "a1"}
SignupIds == {"s1"}

portalVars == <<dbVars, submitVars, analyticsVars, clientVars>>

\* the listener of onAuthStateChange is invoked: it starts getCurrentUser,
\* which is at its first await
NewCallback == [pc |-> "getUser", id |-> NoUser]

\* every callback started so far has called setUser
Settled == \A k \in DOMAIN callbacks : callbacks[k].pc = "done"

\* the profiles row of id as a User object, or NoAppUser when there is none
\* or the select fails
CurrentUser(id, error) ==
    IF error \/ \A p \in profiles : p.id # id THEN NoAppUser
    ELSE CHOOSE p \in profiles : p.id = id

\* the k-th callback resumes from its pending await: auth.getUser() gives
\* the user of the session stored at that moment; the profiles select,
\* sent for that user, gives the row; then setUser(currentUser), or
\* setUser(null) when getCurrentUser threw
CallbackStep(k, error) ==
    /\ callbacks[k].pc # "done"
    /\ IF callbacks[k].pc = "getUser"
       THEN IF session = NoUser
            THEN /\ callbacks' = [callbacks EXCEPT ![k].pc = "done"]
                 /\ appUser' = NoAppUser
            ELSE /\ callbacks' = [callbacks EXCEPT ![k] =
                                     [pc |-> "getProfile", id |-> session]]
                 /\ UNCHANGED appUser
       ELSE /\ callbacks' = [callbacks EXCEPT ![k].pc = "done"]
            /\ appUser' = CurrentUser(callbacks[k].id, error)
    /\ UNCHANGED <<portalVars, auth_users, profiles, session, authCall, visible>>

\* the Login page, rendered while user is null, calls login(email,
\* password, role) with the credentials of id, and signInWithPassword
\* resolves: with an error login throws, else the session is stored and the
\* listener is invoked
Login(id, role, authError) ==
    /\ appUser = NoAppUser
    /\ authCall.pc \in {"idle", "done", "threw"}
    /\ id \in auth_users
    /\ Len(callbacks) < MaxCallbacks - 1
    /\ IF authError
       THEN /\ authCall' = [NoAuthCall EXCEPT !.kind = "login", !.pc = "threw",
                                              !.id = id, !.role = role,
                                              !.clean = Settled]
            /\ UNCHANGED <<session, callbacks>>
       ELSE /\ authCall' = [NoAuthCall EXCEPT !.kind = "login", !.pc = "getProfile",
                                              !.id = id, !.role = role,
                                              !.clean = Settled]
            /\ session' = id
            /\ callbacks' = Append(callbacks, NewCallback)
    /\ UNCHANGED <<portalVars, auth_users, profiles, appUser, visible>>

\* login: the profiles select resolves; login throws, goes on to signOut,
\* or returns and AuthProvider.login calls setUser(response.user)
LoginGetProfile(profileError) ==
    /\ authCall.kind = "login"
    /\ authCall.pc = "getProfile"
    /\ LET profile == CurrentUser(authCall.id, profileError)
       IN IF profile = NoAppUser
          THEN /\ authCall' = [authCall EXCEPT !.pc = "threw"]
               /\ UNCHANGED appUser
          ELSE IF profile.role # authCall.role
          THEN /\ authCall' = [authCall EXCEPT !.pc = "signOut"]
               /\ UNCHANGED appUser
          ELSE /\ authCall' = [authCall EXCEPT !.pc = "done"]
               /\ appUser' = profile
    /\ UNCHANGED <<portalVars, auth_users, profiles, session, callbacks, visible>>

\* login: auth.signOut() resolves, the session is removed and the listener
\* is invoked; login throws the role error
LoginSignOut ==
    /\ authCall.kind = "login"
    /\ authCall.pc = "signOut"
    /\ session' = NoUser
    /\ callbacks' = Append(callbacks, NewCallback)
    /\ authCall' = [authCall EXCEPT !.pc = "threw"]
    /\ UNCHANGED <<portalVars, auth_users, profiles, appUser, visible>>

\* AuthProvider.logout from a dashboard: apiService.logout() is started
\* and setUser(null) is called
Logout ==
    /\ appUser # NoAppUser
    /\ authCall.pc \in {"idle", "done", "threw"}
    /\ Len(callbacks) < MaxCallbacks
    /\ appUser' = NoAppUser
    /\ authCall' = [NoAuthCall EXCEPT !.kind = "logout", !.pc = "signOut"]
    /\ UNCHANGED <<portalVars, auth_users, profiles, session, callbacks, visible>>

\* logout: auth.signOut() resolves
LogoutSignOut ==
    /\ authCall.kind = "logout"
    /\ authCall.pc = "signOut"
    /\ session' = NoUser
    /\ callbacks' = Append(callbacks, NewCallback)
    /\ authCall' = [authCall EXCEPT !.pc = "done"]
    /\ UNCHANGED <<portalVars, auth_users, profiles, appUser, visible>>

\* the Login page calls signup(data) and the username select resolves:
\* with a row found signup throws
Signup(taken) ==
    /\ appUser = NoAppUser
    /\ authCall.pc \in {"idle", "done", "threw"}
    /\ Len(callbacks) < MaxCallbacks
    /\ authCall' = [NoAuthCall EXCEPT !.kind = "signup",
                                      !.pc = IF taken THEN "threw" ELSE "signUp"]
    /\ UNCHANGED <<portalVars, auth_users, profiles, session, appUser, callbacks,
                   visible>>

\* signup: auth.signUp resolves with an error, with a new user and no
\* session (the address has to be confirmed first), or with a new user and
\* a session, which is stored and announced to the listener
SignupSignUp(id, outcome) ==
    /\ authCall.kind = "signup"
    /\ authCall.pc = "signUp"
    /\ id \notin auth_users
    /\ CASE outcome = "error" ->
              /\ authCall' = [authCall EXCEPT !.pc = "threw"]
              /\ UNCHANGED <<auth_users, session, callbacks>>
         [] outcome = "user" ->
              /\ auth_users' = auth_users \cup {id}
              /\ authCall' = [authCall EXCEPT !.pc = "threw", !.created = id]
              /\ UNCHANGED <<session, callbacks>>
         [] outcome = "session" ->
              /\ auth_users' = auth_users \cup {id}
              /\ session' = id
              /\ callbacks' = Append(callbacks, NewCallback)
              /\ authCall' = [authCall EXCEPT !.pc = "insertProfile", !.id = id,
                                              !.created = id]
    /\ UNCHANGED <<portalVars, profiles, appUser, visible>>

\* signup: the insert into profiles resolves; the row is accepted when the
\* request carries the session of its id ("Users can insert own profile"),
\* the id is in auth.users and has no row yet; then signup returns and
\* AuthProvider.signup calls setUser(response.user)
SignupInsertProfile(profileError) ==
    /\ authCall.kind = "signup"
    /\ authCall.pc = "insertProfile"
    /\ IF \/ profileError
          \/ session # authCall.id
          \/ authCall.id \notin auth_users
          \/ \E p \in profiles : p.id = authCall.id
       THEN /\ authCall' = [authCall EXCEPT !.pc = "deleteUser"]
            /\ UNCHANGED <<profiles, appUser>>
       ELSE /\ profiles' = profiles \cup {[id |-> authCall.id, role |-> "trainee"]}
            /\ appUser' = [id |-> authCall.id, role |-> "trainee"]
            /\ authCall' = [authCall EXCEPT !.pc = "done"]
    /\ UNCHANGED <<portalVars, auth_users, session, callbacks, visible>>

\* signup: auth.admin.deleteUser(id) resolves or rejects, which the
\* .catch(() => {}) hides; signup throws
SignupDeleteUser(deleted) ==
    /\ authCall.kind = "signup"
    /\ authCall.pc = "deleteUser"
    /\ IF deleted
       THEN /\ auth_users' = auth_users \ {authCall.id}
            /\ profiles' = {p \in profiles : p.id # authCall.id}
       ELSE UNCHANGED <<auth_users, profiles>>
    /\ authCall' = [authCall EXCEPT !.pc = "threw"]
    /\ UNCHANGED <<portalVars, session, appUser, callbacks, visible>>

InitAuth ==
    /\ quizzes = {}
    /\ questions = {}
    /\ question_options = {}
    /\ generated = NoneGenerated
    /\ quiz_attempts = <<>>
    /\ attempt_answers = <<>>
    /\ pc = "idle"
    /\ user = NoUser
    /\ quizId = Undefined
    /\ answers = <<>>
    /\ quiz = NoQuiz
    /\ totalScore = 0
    /\ totalPoints = 0
    /\ answerResults = <<>>
    /\ attempt = Undefined
    /\ history = <<>>
    /\ report = NoReport
    /\ editor = NoEditor
    /\ taker = NoTaker
    /\ calls = <<>>
    /\ lastSelected = <<>>
    /\ auth_users = Members
    /\ profiles = {[id |-> u, role |-> IF u = "a1" THEN "admin" ELSE "trainee"] :
                      u \in Members}
    /\ session = NoUser
    /\ appUser = NoAppUser
    /\ callbacks = <<>>
    /\ authCall = NoAuthCall
    /\ visible = NoRows

NextAuth ==
    \/ \E k \in DOMAIN callbacks, error \in BOOLEAN : CallbackStep(k, error)
    \/ \E id \in Members \cup SignupIds, role \in Roles, authError \in BOOLEAN :
          Login(id, role, authError)
    \/ \E profileError \in BOOLEAN : LoginGetProfile(profileError)
    \/ LoginSignOut
    \/ Logout
    \/ LogoutSignOut
    \/ \E taken \in BOOLEAN : Signup(taken)
    \/ \E id \in SignupIds, outcome \in {"error", "user", "session"} :
          SignupSignUp(id, outcome)
    \/ \E profileError \in BOOLEAN : SignupInsertProfile(profileError)
    \/ \E deleted \in BOOLEAN : SignupDeleteUser(deleted)

SpecAuth == InitAuth /\ [][NextAuth]_vars

\* ================================================================ claims
\* the grading loop of the current call has run
Graded == quiz # NoQuiz

\* the question of the fetched quiz an answer is graded against (0: none)
QuestionOf(questionId) == FindIndex(quiz.questions, "id", questionId)
Matched(answer) == QuestionOf(answer.questionId) # 0

\* C1: after the grading loop, totalPoints is at most the number of submitted
\* answers and totalScore is at most totalPoints.
C1_GradingBounds ==
    Graded => /\ totalPoints <= Len(answers)
              /\ totalScore <= totalPoints
C1_Witness ==
    /\ Graded
    /\ Len(answers) = 2
    /\ totalPoints = 1
    /\ totalScore = 1

\* C2 (as claimed): a graded answer is correct exactly when its
\* selectedOptionId is the correctOptionId of its question, and it is wrong when
\* the selected option is not an option of the question or is an option that
\* is not the correct one.
C2_CorrectIffDesignated ==
    Graded =>
        \A i \in DOMAIN answerResults :
            LET r == answerResults[i]
                question == quiz.questions[QuestionOf(r.questionId)]
                oi == FindIndex(question.options, "id", r.selectedOptionId)
            IN /\ r.isCorrect <=> (r.selectedOptionId = question.correctOptionId)
               /\ oi = 0 => ~r.isCorrect
               /\ (oi # 0 /\ ~question.options[oi].isCorrect) => ~r.isCorrect

\* C3: totalPoints is the length of the GradedAnswer list, which has one
\* entry per answer that matched a question, and totalScore is the number of
\* its entries with isCorrect = true.
C3_FlatPoints ==
    Graded => /\ Len(answerResults) = Cardinality({i \in DOMAIN answers : Matched(answers[i])})
              /\ totalPoints = Len(answerResults)
              /\ totalScore = Cardinality({i \in DOMAIN answerResults : answerResults[i].isCorrect})
C3_Witness ==
    /\ Graded
    /\ totalPoints = 2
    /\ totalScore = 1

\* C4: an answer whose questionId matches no question of the quiz leaves no
\* entry in the GradedAnswer list and adds nothing to totalPoints or
\* totalScore: the outcome is the one of grading the matching answers alone.
C4_UnmatchedDropped ==
    Graded =>
        LET kept == SelectSeq(answers, Matched)
        IN /\ \A i \in DOMAIN answerResults : Matched(answerResults[i])
           /\ totalPoints = Len(kept)
           /\ [totalScore |-> totalScore, totalPoints |-> totalPoints,
               answerResults |-> answerResults] = GradeLoop(quiz, kept, Len(kept))
C4_Witness ==
    /\ pc = "done"
    /\ Len(answers) = 2
    /\ ~Matched(answers[1])
    /\ Matched(answers[2])
    /\ totalScore = 1

\* C10 (as claimed): every stored attempt has all its graded answer rows
\* stored with it, and every stored graded answer row has its attempt.
C10_AttemptIsOneUnit ==
    /\ \A a \in DOMAIN quiz_attempts :
          Cardinality({i \in DOMAIN attempt_answers :
                          attempt_answers[i].attempt_id = quiz_attempts[a].id})
            = quiz_attempts[a].total_points
    /\ \A j \in DOMAIN attempt_answers :
          \E a \in DOMAIN quiz_attempts :
              quiz_attempts[a].id = attempt_answers[j].attempt_id

\* the matched answers among the first i, and the graded answer that
\* grading an answer on its own yields
MatchedUpTo(i) == {m \in 1..i : Matched(answers[m])}
Alone(answer) == GradeLoop(quiz, <<answer>>, 1).answerResults[1]

\* C14: two answers with the same questionId that matches a question are both
\* graded, each as it would be on its own: both are in the GradedAnswer list,
\* each counts one point, and each counts one score point when it is correct.
C14_RepeatedAnswersBothCounted ==
    Graded =>
        \A i, j \in DOMAIN answers :
            (i < j /\ answers[i].questionId = answers[j].questionId /\ Matched(answers[i]))
            => /\ Cardinality(MatchedUpTo(j)) <= Len(answerResults)
               /\ answerResults[Cardinality(MatchedUpTo(i))] = Alone(answers[i])
               /\ answerResults[Cardinality(MatchedUpTo(j))] = Alone(answers[j])
               /\ totalPoints = Cardinality(MatchedUpTo(Len(answers)))
               /\ totalScore = Cardinality({m \in MatchedUpTo(Len(answers)) :
                                               Alone(answers[m]).isCorrect})
C14_Witness ==
    /\ Graded
    /\ Len(answers) = 2
    /\ answers[1].questionId = answers[2].questionId
    /\ Matched(answers[1])
    /\ totalPoints = 2
    /\ totalScore = 1

\* C15 (as claimed): totalPoints is the number of distinct questionIds among
\* the submitted answers that are ids of questions of the quiz.
C15_TotalPointsCountsDistinctQuestions ==
    Graded =>
        totalPoints = Cardinality({answers[i].questionId :
                                      i \in {m \in DOMAIN answers : Matched(answers[m])}})

\* C16: the GradedAnswer list is the input answers that matched a question,
\* in the order of the input, each with its questionId and selectedOptionId.
C16_ResultsInInputOrder ==
    Graded =>
        LET kept == SelectSeq(answers, Matched)
        IN /\ Len(answerResults) = Len(kept)
           /\ \A i \in DOMAIN answerResults :
                 /\ answerResults[i].questionId = kept[i].questionId
                 /\ answerResults[i].selectedOptionId = kept[i].selectedOptionId
C16_Witness ==
    /\ pc = "done"
    /\ Len(quiz.questions) = 2
    /\ Len(answers) = 2
    /\ answers[1].questionId = quiz.questions[2].id
    /\ answers[2].questionId = quiz.questions[1].id
    /\ Len(answerResults) = 2

\* C17: a call with an empty answer sequence whose quiz was fetched goes on
\* to store the attempt, with totalScore 0, totalPoints 0 and no graded answer.
C17_EmptyAnswersGradeToZero ==
    [][(pc = "getQuestions" /\ answers = <<>> /\ quiz' # quiz)
          => /\ pc' = "insertAttempt"
             /\ totalScore' = 0
             /\ totalPoints' = 0
             /\ answerResults' = <<>>]_vars
C17_Witness ==
    /\ pc = "done"
    /\ answers = <<>>
    /\ Len(quiz.questions) = 2
    /\ totalPoints = 0
    /\ quiz_attempts # <<>>

\* ---- claims about getQuizAnalytics (SpecAnalytics)
Reported == report # NoReport

RECURSIVE SumOf(_)
SumOf(numbers) ==
    IF numbers = <<>> THEN 0
    ELSE numbers[Len(numbers)] + SumOf(SubSeq(numbers, 1, Len(numbers) - 1))

\* the scanned attempts of one quiz, of one user
OfQuiz(id) == SelectSeq(history, LAMBDA row : row.quiz_id = id)
OfUser(id) == SelectSeq(history, LAMBDA row : row.user_id = id)
Scores(group) == SumOf([i \in DOMAIN group |-> group[i].score])
Points(group) == SumOf([i \in DOMAIN group |-> group[i].total_points])

\* the positions of history at which a quiz id occurs for the first time, and
\* the quiz id of the k-th of them
FirstSeen ==
    {i \in DOMAIN history :
        \A j \in 1..(i - 1) : history[j].quiz_id # history[i].quiz_id}
NthQuiz(k) ==
    history[CHOOSE i \in FirstSeen : Cardinality({j \in FirstSeen : j < i}) = k - 1].quiz_id
UsersSeen == {history[i].user_id : i \in DOMAIN history}

\* 100 * a / b rounded to the nearest integer, halves upwards
RoundedPercent(a, b) == (200 * a + b) \div (2 * b)

\* C5 (as claimed): every quiz record and every leaderboard entry of a group
\* with points reports round(100 * sum of scores / sum of totalPoints).
C5_AverageIsRoundedRatioOfSums ==
    Reported =>
        /\ \A k \in DOMAIN report.quizAnalytics :
              LET group == OfQuiz(NthQuiz(k))
              IN Points(group) > 0 =>
                   report.quizAnalytics[k].averageScore
                     = RoundedPercent(Scores(group), Points(group))
        /\ \A k \in DOMAIN report.topTrainees :
              LET group == OfUser(report.topTrainees[k].userId)
              IN Points(group) > 0 =>
                   report.topTrainees[k].averageScore
                     = RoundedPercent(Scores(group), Points(group))

\* C6 (as claimed): a group whose summed totalPoints is 0 reports
\* averageScore 0.
C6_ZeroPointsAverageIsZero ==
    Reported =>
        /\ \A k \in DOMAIN report.quizAnalytics :
              Points(OfQuiz(NthQuiz(k))) = 0 => report.quizAnalytics[k].averageScore = 0
        /\ \A k \in DOMAIN report.topTrainees :
              Points(OfUser(report.topTrainees[k].userId)) = 0
                  => report.topTrainees[k].averageScore = 0

\* a < b as numbers; nothing is below or above NaN
Below(a, b) == a # NaN /\ b # NaN /\ a < b

\* C7 (as claimed): the leaderboard has min(10, number of users) entries, one
\* per user, in descending order of averageScore, and no user left out of it
\* has a higher averageScore than a user in it.
C7_LeaderboardTopTen ==
    Reported =>
        LET top == report.topTrainees
            n == Cardinality(UsersSeen)
            listed == {top[k].userId : k \in DOMAIN top}
        IN /\ Len(top) = IF n < 10 THEN n ELSE 10
           /\ listed \subseteq UsersSeen
           /\ Cardinality(listed) = Len(top)
           /\ \A i, j \in DOMAIN top :
                 i < j => ~Below(top[i].averageScore, top[j].averageScore)
           /\ \A u \in UsersSeen \ listed : \A k \in DOMAIN top :
                 ~Below(top[k].averageScore,
                        Percentage(Scores(OfUser(u)), Points(OfUser(u))))

\* C8: totalAttempts is the number of attempts scanned, and the attempt
\* counts of the quiz records add up to it.
C8_TotalAttempts ==
    Reported =>
        /\ report.totalAttempts = Len(history)
        /\ SumOf([k \in DOMAIN report.quizAnalytics |-> report.quizAnalytics[k].attempts])
             = Len(history)
C8_Witness ==
    /\ Reported
    /\ Len(history) = 3
    /\ Len(report.quizAnalytics) = 2

\* C18: with no attempt to summarize, getQuizAnalytics returns totalAttempts
\* 0, no quiz record and an empty leaderboard.
C18_EmptyHistoryEmptyReport ==
    (Reported /\ history = <<>>) =>
        report = [totalAttempts |-> 0, quizAnalytics |-> <<>>, topTrainees |-> <<>>]
C18_Witness ==
    /\ Reported
    /\ history = <<>>
    /\ quiz_attempts = <<>>

\* C9: there is one quiz record per quiz id among the scanned attempts; the
\* k-th record is the one of the k-th quiz id met while scanning and carries
\* the number of attempts of that quiz.
C9_OneRecordPerQuizInFirstSeenOrder ==
    Reported =>
        /\ Len(report.quizAnalytics) = Cardinality(FirstSeen)
        /\ \A k \in DOMAIN report.quizAnalytics :
              /\ report.quizAnalytics[k].quizTitle = QuizTitle(NthQuiz(k))
              /\ report.quizAnalytics[k].attempts = Len(OfQuiz(NthQuiz(k)))
C9_Witness ==
    /\ Reported
    /\ Len(history) = 3
    /\ history[1].quiz_id = 2
    /\ history[2].quiz_id = 1
    /\ history[3].quiz_id = 2
    /\ Len(report.quizAnalytics) = 2

\* ---- claims about QuizTaker (SpecTaker)
\* C11 (as claimed): one QuizTaker session inserts at most one attempt row,
\* however timer ticks after expiry, clicks on Submit and the completion or
\* failure of the submit requests in flight interleave.
C11_OneAttemptPerSession ==
    taker # NoTaker => Len(quiz_attempts) <= 1

\* the option rows with their is_correct flags blanked
Redacted(optionRows) == {[o EXCEPT !.is_correct = FALSE] : o \in optionRows}

\* C13 (as claimed): until the submission has finished, the quiz the client
\* holds does not depend on the is_correct flags: it is the quiz that
\* getQuizzes / getQuizById would deliver from option rows whose flags are
\* blanked, so neither isCorrect nor correctOptionId tells the correct option
\* of a question from the others.
C13_NoAnswerLeak ==
    (taker # NoTaker /\ ~taker.submitted) =>
        taker.quiz = FormatQuiz(taker.quiz.id, questions, Redacted(question_options))

\* no two answers of as have the same questionId
OnePerQuestion(as) ==
    \A i, j \in DOMAIN as : as[i].questionId = as[j].questionId => i = j

\* C19: the answers QuizTaker holds have at most one answer per question, the
\* answer of a question is the option clicked last for it, every question
\* with a clicked option has an answer, and no submitQuizAttempt call was
\* given two answers with the same questionId.
C19_OneAnswerPerQuestion ==
    taker # NoTaker =>
        /\ OnePerQuestion(taker.answers)
        /\ \A i \in DOMAIN taker.answers :
              lastSelected[taker.answers[i].questionId] = taker.answers[i].selectedOptionId
        /\ \A id \in DOMAIN lastSelected :
              lastSelected[id] # 0 => FindIndex(taker.answers, "questionId", id) # 0
        /\ \A k \in DOMAIN calls : OnePerQuestion(calls[k].answers)
C19_Witness ==
    /\ taker # NoTaker
    /\ Len(taker.answers) = 2
    /\ taker.answers[1].questionId = taker.quiz.questions[2].id
    /\ taker.answers[2].questionId = taker.quiz.questions[1].id
    /\ taker.answers[1].selectedOptionId = taker.quiz.questions[2].options[2].id
    /\ taker.currentQuestionIndex = 1
    /\ calls # <<>>
    /\ calls[1].answers = taker.answers

\* ---- claims about updateQuiz and deleteQuiz (SpecEdit)
\* C12 (as claimed): no operation removes or changes a stored attempt or one
\* of its stored graded answers: every row of quiz_attempts and of
\* attempt_answers is still stored, unchanged, after every step.
C12_AttemptsRetained ==
    [][/\ \A a \in DOMAIN quiz_attempts :
             \E b \in DOMAIN quiz_attempts' : quiz_attempts'[b] = quiz_attempts[a]
       /\ \A j \in DOMAIN attempt_answers :
             \E k \in DOMAIN attempt_answers' : attempt_answers'[k] = attempt_answers[j]]_vars

\* C20: every stored graded answer belongs to a stored attempt and names a
\* stored question of the quiz that attempt is for, and every graded answer
\* of the running call names a question of the quiz it fetched for quizId;
\* this holds in every state, whatever updateQuiz and deleteQuiz do between
\* the moment the trainee loaded the quiz and the end of the call.
C20_AnswersReferenceQuizQuestions ==
    /\ \A j \in DOMAIN attempt_answers :
          \E a \in DOMAIN quiz_attempts :
              /\ quiz_attempts[a].id = attempt_answers[j].attempt_id
              /\ \E q \in questions :
                    /\ q.id = attempt_answers[j].question_id
                    /\ q.quiz_id = quiz_attempts[a].quiz_id
    /\ Graded =>
          /\ quiz.id = quizId
          /\ \A i \in DOMAIN answerResults : Matched(answerResults[i])
C20_Witness ==
    /\ pc = "done"
    /\ quiz_attempts # <<>>
    /\ Len(answers) = 2
    /\ Len(quiz.questions) = 1
    /\ quiz.questions[1].id > MaxQuestions
    /\ answerResults = <<>>

\* ---- claims about the stored quizzes (SpecAuthor)
\* what is stored for quiz id after the step
StoredAfter(id) ==
    LET rows == {q \in questions' : q.quiz_id = id}
    IN [questions |-> rows,
        question_options |-> {o \in question_options' :
                                 \E q \in rows : o.question_id = q.id}]

\* updateQuiz's delete on questions has just succeeded
QuestionsDeleted ==
    editor.pc = "deleteQuestions" /\ editor'.pc \in {"insertQuestion", "getQuiz"}

\* C21: no step changes a stored option: an option that is still stored
\* after the step is the same row, with the same is_correct; every row a step
\* adds has an id no option ever had; and when updateQuiz's delete succeeds,
\* no question and no option of the quiz is left.
C21_OptionFlagsFixed ==
    [][/\ \A o \in question_options : \A after \in question_options' :
             after.id = o.id => after = o
       /\ \A after \in question_options' \ question_options :
             after.id > generated.question_options
       /\ QuestionsDeleted => StoredAfter(editor.id) = NoEditor.before]_vars
C21_Witness ==
    /\ editor.pc = "getQuiz"
    /\ editor.hasQuestions
    /\ editor.before.question_options # {}
    /\ editor.before.question_options \cap question_options = {}
    /\ \E o \in question_options :
          /\ o.id > Cardinality(AuthorTables(MaxAuthorQuizzes).question_options)
          /\ o.is_correct
    /\ \E o \in question_options : \E q \in questions :
          o.question_id = q.id /\ q.quiz_id # editor.id

\* a quizzes row was deleted in this step
Destroyed == quizzes \ quizzes'

\* C22: when a quiz is deleted, it alone is deleted, none of its questions
\* and none of their options stays stored, and the questions and options of
\* the other quizzes are the ones stored before.
C22_DeleteCascadesToQuestions ==
    [][Destroyed # {} =>
          /\ quizzes' \subseteq quizzes
          /\ Cardinality(Destroyed) = 1
          /\ questions' = {q \in questions : q.quiz_id \notin Destroyed}
          /\ question_options' =
                {o \in question_options :
                    \E q \in questions : q.id = o.question_id /\ q.quiz_id \notin Destroyed}]_vars
C22_Witness ==
    /\ quizzes = {2}
    /\ {q.quiz_id : q \in questions} = {2}
    /\ Cardinality(question_options) = 2
    /\ \A o \in question_options : \E q \in questions : o.question_id = q.id

\* C26 (as claimed): when an updateQuiz call on a quiz that is still stored
\* ends by throwing, the quiz has the questions and options it had when the
\* call was made; when it ends by returning after replacing the questions,
\* the stored questions are the supplied ones, in the supplied order, with
\* the supplied options.
C26_UpdateIsAllOrNothing ==
    [][(editor.pc # "idle" /\ editor'.pc = "idle" /\ editor.id \in quizzes') =>
          IF editor.pc = "getQuiz"
          THEN editor.hasQuestions =>
                  LET stored == FormatQuiz(editor.id, questions', question_options')
                  IN /\ Len(stored.questions) = Len(editor.questions)
                     /\ \A i \in DOMAIN stored.questions :
                           LET given == editor.questions[i]
                               kept == stored.questions[i].options
                           IN /\ Len(kept) = Len(given.options)
                              /\ \A j \in DOMAIN kept :
                                    kept[j].isCorrect
                                       = (given.options[j] = given.correctOptionId)
          ELSE StoredAfter(editor.id) = editor.before]_vars

\* C24 (as claimed): over a history in which every attempt has
\* 0 <= score <= totalPoints, every averageScore of the report, per quiz and
\* per leaderboard user, is an integer between 0 and 100.
C24_AverageScoreIsPercentage ==
    (Reported /\ \A k \in DOMAIN history :
                    0 <= history[k].score /\ history[k].score <= history[k].total_points) =>
        /\ \A k \in DOMAIN report.quizAnalytics :
              report.quizAnalytics[k].averageScore \in 0..100
        /\ \A k \in DOMAIN report.topTrainees :
              report.topTrainees[k].averageScore \in 0..100

\* C29: for a quiz with a time limit, timeRemaining never becomes negative
\* and changes only by a decrement of 1, made while it is positive and
\* nothing is submitted; every call issued carries the answers selected so
\* far; once submitted is true, timeRemaining stays and no call is issued;
\* and under a fair timer the countdown reaches 0 and a call is issued (by
\* the timer, when the trainee never presses Submit) unless the quiz is
\* submitted first.
C29_TimerCountsDownAndSubmits ==
    /\ [][(taker # NoTaker /\ taker.timeRemaining # NoTimeLimit) =>
            /\ taker'.timeRemaining >= 0
            /\ taker'.timeRemaining \in {taker.timeRemaining, taker.timeRemaining - 1}
            /\ taker'.timeRemaining # taker.timeRemaining =>
                  taker.timeRemaining > 0 /\ ~taker.submitted
            /\ Len(calls') > Len(calls) =>
                  calls'[Len(calls')] = NewCall(taker.quiz.id, taker.answers)
            /\ taker.submitted =>
                  /\ taker'.timeRemaining = taker.timeRemaining
                  /\ Len(calls') = Len(calls)]_vars
    /\ (taker # NoTaker /\ taker.timeRemaining # NoTimeLimit)
          ~> (taker.submitted \/ (taker.timeRemaining = 0 /\ calls # <<>>))

\* the countdown is at 0 and the timer, not the Submit button (an answer is
\* missing), has issued a call with the answers selected so far
C29_Witness ==
    /\ QuizView
    /\ taker.timeRemaining = 0
    /\ Len(taker.answers) = 1
    /\ Len(taker.answers) < Len(taker.quiz.questions)
    /\ calls # <<>>
    /\ calls[1].answers = taker.answers

\* C25 (as claimed): an attempt submitted through the Submit button, that
\* is with as many answers as the loaded quiz has questions, is persisted
\* with totalPoints equal to the number of questions of that quiz, also
\* when updateQuiz replaces the questions in between.
C25_SubmittedAttemptCountsLoadedQuestions ==
    \A k \in DOMAIN calls :
        (/\ calls[k].pc \in {"insertAnswers", "done"}
         /\ Len(calls[k].answers) = Len(taker.quiz.questions)) =>
            \E a \in DOMAIN quiz_attempts :
                /\ quiz_attempts[a].id = calls[k].attempt
                /\ quiz_attempts[a].total_points = Len(taker.quiz.questions)

\* C23: a select on quiz_attempts by a user whose profile role is not admin
\* returns only rows whose user_id is that user's id; a select without a
\* user filter by an admin returns every row; and every row inserted into
\* quiz_attempts has the user_id of the user who inserted it.
C23_OwnAttemptsOnly ==
    [][/\ ~visible'.admin =>
             \A i \in DOMAIN visible'.rows : visible'.rows[i].user_id = visible'.uid
       /\ (visible'.admin /\ visible'.userId = NoUser) =>
             Len(visible'.rows) = visible'.total
       /\ Len(quiz_attempts') > Len(quiz_attempts) =>
             /\ session # NoUser
             /\ quiz_attempts'[Len(quiz_attempts')].user_id = session]_vars

\* a trainee has asked for all attempts and got their own one of the three
\* stored, the others being of another trainee and of the administrator
C23_Witness ==
    /\ visible.uid = "u1"
    /\ ~visible.admin
    /\ visible.userId = NoUser
    /\ Len(visible.rows) = 1
    /\ {quiz_attempts[i].user_id : i \in DOMAIN quiz_attempts} = Accounts
    /\ visible.total = Len(quiz_attempts)

\* C27 (as claimed): while and after a login from a settled, signed-out app
\* whose requested role differs from the role of the profile, the
\* AuthProvider's user is null: login throws, the app never holds a
\* non-null user for it, and user is null once every callback has completed.
C27_RoleMismatchLeavesNobodyLoggedIn ==
    (/\ authCall.kind = "login"
     /\ authCall.clean
     /\ \E p \in profiles : p.id = authCall.id /\ p.role # authCall.role)
        => appUser = NoAppUser

\* C28 (as claimed): once signup has returned or thrown, the auth user it
\* created, if it still exists, has a profiles row, and every profile of an
\* account that signed up has role trainee.
C28_SignupCreatesBothOrNeither ==
    /\ (/\ authCall.kind = "signup"
        /\ authCall.pc \in {"done", "threw"}
        /\ authCall.created \in auth_users)
          => \E p \in profiles : p.id = authCall.created
    /\ \A p \in profiles : p.id \in SignupIds => p.role = "trainee"

====
